---- MODULE Spec2Model ----
(***************************************************************************)
(* Model of hwe/data/processor.py: the DocumentProcessor class.            *)
(*                                                                         *)
(* A Python str is a sequence of one-character strings, a list is a        *)
(* sequence, an exception is the name in call.raised.  The file system,    *)
(* the environment, the lexical database, the text splitter and the        *)
(* vector store are outside the class: what they answer is an input of     *)
(* the action that asks them.                                              *)
(***************************************************************************)
EXTENDS Integers, Sequences, FiniteSets, TLC

VARIABLES
    inst,   \* the processor: NoInstance, or [file_path, docs]
    pre,    \* inst as it was when the last call started
    call,   \* the last call: what it was given, what it read, what the
            \* splitter answered it, what it did, raised and returned
    input   \* the input of the single-function specifications (Init draws it)

vars == <<inst, pre, call, input>>

----------------------------------------------------------------------------
\* Bounds of the model.

\* number of records and of characters of their fulltext values, together, of
\* a corpus file (SpecCompile)
MaxCorpusSize == 6
\* number of article records in a file (Spec)
MaxRecords == 2
\* number of characters of a text given to __word_frequency (SpecFreq)
MaxTextLen == 7
\* largest top_freq given to __word_frequency (SpecFreq)
MaxFreq == 2
\* number of synsets, hyponyms and lemmas, together, that the lexical database
\* holds for a word (SpecHyponyms)
MaxWordNetSize == 7
\* number of atoms of a path given to the constructor (SpecInit)
MaxPathLen == 4
\* number of chunks the text splitter answers
MaxChunks == 3

\* DocumentProcessor._openai_token_limit: 150_000 in the source, scaled down
\* so that texts within MaxCorpusSize are longer than it.
openai_token_limit == 3

----------------------------------------------------------------------------
\* Values.

NoInstance == [file_path |-> <<"<no instance>">>, docs |-> <<>>, exists |-> FALSE]

Instance(path, docs) == [file_path |-> path, docs |-> docs, exists |-> TRUE]

NoCall ==
    [op |-> "none", arg |-> <<>>, read |-> <<>>, split |-> <<>>, raised |-> "none",
     events |-> <<>>, result |-> <<>>]

Event(name, arg) == [name |-> name, arg |-> arg]

Min(a, b) == IF a < b THEN a ELSE b

Max(S) == CHOOSE x \in S : \A y \in S : y <= x

\* the characters of the texts: a letter, the period, a blank and a newline
Alphabet == {"a", ".", " ", "\n"}

Strs(n) == [1..n -> Alphabet]

StrsUpTo(n) == UNION {Strs(k) : k \in 0..n}

\* an article record of the JSON array.  type "str": fulltext is a string;
\* "list": fulltext is a JSON array (of one-character strings); "absent": the
\* record has no fulltext key.
Article(type, fulltext) == [type |-> type, fulltext |-> fulltext]

\* what open() and json.load() find at a path
MissingFile == [kind |-> "missing", articles |-> <<>>]
InvalidJson == [kind |-> "invalid", articles |-> <<>>]
JsonArray(articles) == [kind |-> "array", articles |-> articles]

----------------------------------------------------------------------------
\* __compile_docs

\* s[:n]
Slice(s, n) == SubSeq(s, 1, Min(Len(s), n))

\* sep.join(parts)
RECURSIVE Join(_, _)
Join(sep, parts) ==
    IF parts = <<>> THEN <<>>
    ELSE IF Len(parts) = 1 THEN parts[1]
    ELSE parts[1] \o sep \o Join(sep, Tail(parts))

\* \s
IsSpace(c) == c \in {" ", "\n"}

\* the pattern's $ without re.MULTILINE: the end of the text only
AtTextEnd(txt, pos) == pos = Len(txt) + 1

\* $ under re.MULTILINE, before the character at pos (Len+1: the end)
AtLineEnd(txt, pos) == pos = Len(txt) + 1 \/ txt[pos] = "\n"

\* (?<=\.) before the character at pos
AfterPeriod(txt, pos) == pos > 1 /\ txt[pos - 1] = "."

\* the length of the run of \s characters that starts at pos
RECURSIVE SpaceRun(_, _)
SpaceRun(txt, pos) ==
    IF pos > Len(txt) \/ ~IsSpace(txt[pos]) THEN 0
    ELSE 1 + SpaceRun(txt, pos + 1)

\* the pattern (?<=\.)\s+$ tried at pos: the position after the match (\s+ is
\* greedy and gives characters back until $ matches), or 0 when it fails
MatchEnd(txt, pos) ==
    LET ends == {e \in (pos + 1)..(pos + SpaceRun(txt, pos)) : AtLineEnd(txt, e)}
    IN  IF AfterPeriod(txt, pos) /\ ends # {} THEN Max(ends) ELSE 0

\* re.sub(pattern, '', txt, flags=re.MULTILINE), scanning from pos
RECURSIVE SubFrom(_, _)
SubFrom(txt, pos) ==
    IF pos > Len(txt) THEN <<>>
    ELSE LET e == MatchEnd(txt, pos)
         IN  IF e # 0 THEN SubFrom(txt, e)
             ELSE <<txt[pos]>> \o SubFrom(txt, pos + 1)

ReSub(txt) == SubFrom(txt, 1)

\* the except clause, had it let the parse error through
ReraiseDecodeError == [raised |-> "JSONDecodeError", events |-> <<>>]

\* except json.JSONDecodeError as e: logger.error(e), then raise ValueError
OnDecodeError ==
    [raised |-> "ValueError", events |-> <<Event("logger.error", "JSONDecodeError")>>]

\* [art['fulltext'][:limit] for art in articles]
TruncatedDocs(articles) ==
    [i \in 1..Len(articles) |-> Slice(articles[i].fulltext, openai_token_limit)]

\* __compile_docs on a file: what it raises, whether and to what self.docs
\* is assigned, what it calls and what it returns
CompileDocs(file) ==
    LET arts == file.articles
        opened == <<Event("open", <<>>)>>
        loaded == opened \o <<Event("json.load", <<>>)>>
        none == [raised |-> "none", assigned |-> FALSE, docs |-> <<>>,
                 events |-> <<>>, txt |-> <<>>]
    IN  IF file.kind = "missing"
            THEN [none EXCEPT !.raised = "FileNotFoundError", !.events = opened]
        ELSE IF file.kind = "invalid"
            THEN [none EXCEPT !.raised = OnDecodeError.raised,
                              !.events = loaded \o OnDecodeError.events]
        ELSE IF \E i \in 1..Len(arts) : arts[i].type = "absent"
            THEN [none EXCEPT !.raised = "KeyError", !.events = loaded]
        ELSE IF \E i \in 1..Len(arts) : arts[i].type = "list"
            THEN [none EXCEPT !.raised = "TypeError", !.events = loaded,
                              !.assigned = TRUE, !.docs = TruncatedDocs(arts)]
        ELSE [none EXCEPT !.events = loaded, !.assigned = TRUE,
                          !.docs = TruncatedDocs(arts),
                          !.txt = ReSub(Join(<<".">>, TruncatedDocs(arts)))]

\* the processor after __compile_docs, had self.docs been reset before the
\* file is read
AfterCompileReset(self, c) == [self EXCEPT !.docs = c.docs]

\* the processor after __compile_docs
AfterCompile(self, c) ==
    IF c.assigned THEN [self EXCEPT !.docs = c.docs] ELSE self

\* a call of __compile_docs alone
compile_docs(file) ==
    /\ inst.exists
    /\ call.op = "none"
    /\ LET c == CompileDocs(file)
       IN  /\ inst' = AfterCompile(inst, c)
           /\ call' = [op |-> "__compile_docs", arg |-> <<>>, read |-> file,
                       split |-> <<>>, raised |-> c.raised, events |-> c.events, result |-> c.txt]
    /\ pre' = inst
    /\ UNCHANGED input

----------------------------------------------------------------------------
\* __word_frequency

\* the characters of the texts of SpecFreq: a capital, a letter, a blank
FreqAlphabet == {"T", "o", " "}

\* stopwords.words('english'), the entries spelled with the letters t and o
stopwords_set == {<<"t">>, <<"o">>, <<"t", "o">>, <<"t", "o", "o">>}

\* str.lower()
LowerChar(c) == IF c = "T" THEN "t" ELSE c

Lower(text) == [i \in 1..Len(text) |-> LowerChar(text[i])]

\* \w
IsWordChar(c) == c \in {"t", "o", "T"}

\* \b before the character at pos
AtWordBoundary(text, pos) ==
    LET before == pos > 1 /\ IsWordChar(text[pos - 1])
        after == pos <= Len(text) /\ IsWordChar(text[pos])
    IN  before # after

\* the length of the run of \w characters that starts at pos
RECURSIVE WordRun(_, _)
WordRun(text, pos) ==
    IF pos > Len(text) \/ ~IsWordChar(text[pos]) THEN 0
    ELSE 1 + WordRun(text, pos + 1)

\* the shortest match of \w{m,}: m is 3 in the pattern
MinTokenLen == 3

\* the pattern \b\w{3,}\b tried at pos: the position after the match (\w{3,}
\* is greedy and gives characters back until \b matches), or 0 when it fails
TokenEnd(text, pos) ==
    LET ends == {e \in (pos + MinTokenLen)..(pos + WordRun(text, pos)) :
                    AtWordBoundary(text, e)}
    IN  IF AtWordBoundary(text, pos) /\ ends # {} THEN Max(ends) ELSE 0

\* RegexpTokenizer(r'\b\w{3,}\b').tokenize(text), scanning from pos
RECURSIVE TokenizeFrom(_, _)
TokenizeFrom(text, pos) ==
    IF pos > Len(text) THEN <<>>
    ELSE LET e == TokenEnd(text, pos)
         IN  IF e # 0 THEN <<SubSeq(text, pos, e - 1)>> \o TokenizeFrom(text, e)
             ELSE TokenizeFrom(text, pos + 1)

Tokenize(text) == TokenizeFrom(text, 1)

\* a Counter: the pairs <<word, count>> in the order of first insertion
CounterAdd(counter, word) ==
    IF \E i \in 1..Len(counter) : counter[i][1] = word
        THEN [i \in 1..Len(counter) |->
                IF counter[i][1] = word THEN <<word, counter[i][2] + 1>>
                ELSE counter[i]]
    ELSE Append(counter, <<word, 1>>)

\* Counter(tokens)
RECURSIVE CounterOf(_)
CounterOf(tokens) ==
    IF tokens = <<>> THEN <<>>
    ELSE CounterAdd(CounterOf(SubSeq(tokens, 1, Len(tokens) - 1)), tokens[Len(tokens)])

\* del word_counts[word]: a Counter does not raise on a missing key
CounterDel(counter, word) ==
    LET keep(e) == e[1] # word IN SelectSeq(counter, keep)

\* for stopword in words: del word_counts[stopword]
RECURSIVE DelAll(_, _)
DelAll(counter, words) ==
    IF words = {} THEN counter
    ELSE LET w == CHOOSE w \in words : TRUE
         IN  DelAll(CounterDel(counter, w), words \ {w})

\* the comparison of the returned comprehension, with >= for ==
CountAtLeast(count, top_freq) == count >= top_freq

\* the comparison of the returned comprehension
CountMatches(count, top_freq) == count = top_freq

\* __word_frequency(text, top_freq)
WordFrequency(text, top_freq) ==
    LET tokens == Tokenize(Lower(text))
        word_counts == DelAll(CounterOf(tokens), stopwords_set)
        hit(e) == CountMatches(e[2], top_freq)
        hits == SelectSeq(word_counts, hit)
    IN  [i \in 1..Len(hits) |-> hits[i][1]]

\* a call of __word_frequency
word_frequency(text, top_freq) ==
    /\ call.op = "none"
    /\ call' = [op |-> "__word_frequency",
                arg |-> [text |-> text, top_freq |-> top_freq], read |-> <<>>,
                split |-> <<>>, raised |-> "none", events |-> <<>>,
                result |-> WordFrequency(text, top_freq)]
    /\ pre' = inst
    /\ UNCHANGED <<inst, input>>

----------------------------------------------------------------------------
\* extract_hyponyms

\* What wn.synsets(word) answers: a sequence of synsets, a synset being the
\* sequence synset.hyponyms(), a hyponym the sequence hyponym.lemmas(), and a
\* lemma its lemma.name().
LemmaNames == {"x", "y"}

\* hyponyms += [lemma.name()], had it skipped a name already in the list
AddLemmaOnce(hyponyms, name) ==
    IF \E i \in 1..Len(hyponyms) : hyponyms[i] = name THEN hyponyms
    ELSE hyponyms \o <<name>>

\* hyponyms += [lemma.name()]
AddLemma(hyponyms, name) == hyponyms \o <<name>>

\* for lemma in hyponym.lemmas()
RECURSIVE ForLemmas(_, _)
ForLemmas(hyponyms, lemmas) ==
    IF lemmas = <<>> THEN hyponyms
    ELSE ForLemmas(AddLemma(hyponyms, Head(lemmas)), Tail(lemmas))

\* for hyponym in synset.hyponyms()
RECURSIVE ForHyponyms(_, _)
ForHyponyms(hyponyms, synset) ==
    IF synset = <<>> THEN hyponyms
    ELSE ForHyponyms(ForLemmas(hyponyms, Head(synset)), Tail(synset))

\* for synset in synsets
RECURSIVE ForSynsets(_, _)
ForSynsets(hyponyms, synsets) ==
    IF synsets = <<>> THEN hyponyms
    ELSE ForSynsets(ForHyponyms(hyponyms, Head(synsets)), Tail(synsets))

\* extract_hyponyms(word), wn.synsets(word) answering synsets
extract_hyponyms(word, synsets) ==
    /\ inst.exists
    /\ call' = [op |-> "extract_hyponyms", arg |-> word, read |-> synsets,
                split |-> <<>>, raised |-> "none", events |-> <<Event("wn.synsets", word)>>,
                result |-> ForSynsets(<<>>, synsets)]
    /\ pre' = inst
    /\ UNCHANGED <<inst, input>>

----------------------------------------------------------------------------
\* __init__

\* A path is a sequence of atoms: the separator "/", and pieces of file and
\* directory names.  No atom is part of another and none is spelled across
\* two others, so a substring test is a test for the atom.
PathAtoms == {"/", "post_process_data", "raw", ".xml"}

\* os.getenv('COMPILED_DOCS_PATH'): a path, or None when the variable is unset
Unset == <<"None">>

EnvValues == {Unset, <<"compiled">>, <<"compiled", "/">>}

\* sub in path
Contains(path, sub) == \E i \in 1..Len(path) : path[i] = sub

\* os.path.basename(path): what follows the last separator
Basename(path) ==
    LET seps == {i \in 1..Len(path) : path[i] = "/"}
    IN  IF seps = {} THEN path ELSE SubSeq(path, Max(seps) + 1, Len(path))

\* name.replace('.xml', '.json')
ReplaceXml(name) == [i \in 1..Len(name) |-> IF name[i] = ".xml" THEN ".json" ELSE name[i]]

\* os.path.join(dir, name), name holding no separator
PathJoin(dir, name) ==
    IF dir = <<>> \/ dir[Len(dir)] = "/" THEN dir \o name ELSE dir \o <<"/">> \o name

\* __init__, had the existence check come after the routing
InitOutcomeLateCheck(path, exists, env, extraction) ==
    LET routed == <<Event("logging.warning", path), Event("from_xml", path)>>
        checked == <<Event("os.path.exists", path)>>
        none == [raised |-> "none", events |-> <<>>, self |-> NoInstance]
        preprocessed == Contains(path, "post_process_data")
        before == IF preprocessed THEN <<>> ELSE routed
    IN  IF ~preprocessed /\ extraction # "ok"
            THEN [none EXCEPT !.raised = "ExtractionError", !.events = routed]
        ELSE IF ~exists
            THEN [none EXCEPT !.raised = "FileNotFoundError",
                              !.events = before \o checked]
        ELSE IF preprocessed
            THEN [none EXCEPT !.events = checked, !.self = Instance(path, <<>>)]
        ELSE IF env = Unset
            THEN [none EXCEPT !.raised = "TypeError",
                              !.events = routed \o checked \o <<Event("os.getenv", env)>>]
        ELSE [none EXCEPT !.events = routed \o checked \o <<Event("os.getenv", env)>>,
                          !.self = Instance(PathJoin(env, ReplaceXml(Basename(path))), <<>>)]

\* __init__(file_path): what it raises, what it calls, and the processor it
\* leaves.  exists is the answer of os.path.exists, env that of os.getenv,
\* extraction whether NewsPaperExtractorXml.from_xml returns ("ok") or raises.
InitOutcome(path, exists, env, extraction) ==
    LET checked == <<Event("os.path.exists", path)>>
        routed == checked \o <<Event("logging.warning", path), Event("from_xml", path)>>
        none == [raised |-> "none", events |-> <<>>, self |-> NoInstance]
    IN  IF ~exists
            THEN [none EXCEPT !.raised = "FileNotFoundError", !.events = checked]
        ELSE IF Contains(path, "post_process_data")
            THEN [none EXCEPT !.events = checked, !.self = Instance(path, <<>>)]
        ELSE IF extraction # "ok"
            THEN [none EXCEPT !.raised = "ExtractionError", !.events = routed]
        ELSE IF env = Unset
            THEN [none EXCEPT !.raised = "TypeError",
                              !.events = routed \o <<Event("os.getenv", env)>>]
        ELSE [none EXCEPT !.events = routed \o <<Event("os.getenv", env)>>,
                          !.self = Instance(PathJoin(env, ReplaceXml(Basename(path))), <<>>)]

\* DocumentProcessor(file_path)
Construct(path, exists, env, extraction) ==
    /\ ~inst.exists
    /\ LET o == InitOutcome(path, exists, env, extraction)
       IN  /\ inst' = o.self
           /\ call' = [op |-> "__init__",
                       arg |-> [path |-> path, exists |-> exists, env |-> env],
                       read |-> <<>>, split |-> <<>>, raised |-> o.raised,
                       events |-> o.events, result |-> <<>>]
    /\ pre' = inst
    /\ UNCHANGED input

----------------------------------------------------------------------------
\* __v_store and retrieve_docs

\* top_k of __v_store
top_k == 6

\* the 2 of docs[:2]
indexed_chunks == 2

\* [Document(page_content=doc) for doc in chunks]
Documents(chunks) == [i \in 1..Len(chunks) |-> [page_content |-> chunks[i]]]

\* the documents given to __v_store, had the slice been left out
AllDocs(docs) == docs

\* docs[:2], the documents given to __v_store
IndexedDocs(docs) == Slice(docs, indexed_chunks)

\* What retriever.get_relevant_documents may answer from an index built of
\* indexed: the min(top_k, Len(indexed)) most similar documents of the index,
\* in an order that the embeddings decide.
Retrievable(indexed) ==
    LET n == Min(top_k, Len(indexed))
    IN  {[i \in 1..n |-> indexed[f[i]]] :
            f \in {g \in [1..n -> 1..Len(indexed)] :
                      \A a, b \in 1..n : g[a] = g[b] => a = b}}

\* what split_text may answer: any number of chunks; chunk i is a text of its
\* own, <<"chunk", i>>
ChunkLists == {[i \in 1..n |-> <<"chunk", i>>] : n \in 0..MaxChunks}

\* the calls of retrieve_docs once the text is compiled.  chunks is what
\* splitter.split_text answers, provider whether the embedding provider
\* answers ("ok") or fails while the index is built ("index") or while the
\* query is embedded ("query").
SplitIndexQuery(base, query, chunks, provider) ==
    LET docs == Documents(chunks)
        built == base.events \o <<Event("logging.info", <<>>),
                                  Event("Chroma.from_documents", IndexedDocs(docs))>>
        asked == built \o <<Event("get_relevant_documents", query)>>
        done == [base EXCEPT !.split = chunks]
    IN  IF provider = "index"
            THEN call' = [done EXCEPT !.raised = "ProviderError", !.events = built]
        ELSE IF provider = "query"
            THEN call' = [done EXCEPT !.raised = "ProviderError", !.events = asked]
        ELSE \E answer \in Retrievable(IndexedDocs(docs)) :
                call' = [done EXCEPT !.events = asked, !.result = answer]

\* retrieve_docs(query).  file is what open and json.load find at
\* self.file_path.
retrieve_docs(query, file) ==
    /\ inst.exists
    /\ LET c == CompileDocs(file)
           made == <<Event("CharacterTextSplitter",
                           [chunk_size |-> 1000, chunk_overlap |-> 200])>>
           base == [op |-> "retrieve_docs", arg |-> query, read |-> file,
                    split |-> <<>>, raised |-> c.raised,
                    events |-> made \o c.events, result |-> <<>>]
           split == [base EXCEPT !.events = @ \o <<Event("split_text", c.txt)>>]
       IN  /\ inst' = AfterCompile(inst, c)
           /\ IF c.raised # "none" THEN call' = base
              ELSE \E chunks \in ChunkLists, provider \in {"ok", "index", "query"} :
                      SplitIndexQuery(split, query, chunks, provider)
    /\ pre' = inst
    /\ UNCHANGED input

----------------------------------------------------------------------------
\* SpecCompile: __compile_docs on every JSON array of string records within
\* the bounds.

\* the sequences of strings of b strings and characters, together, at most
RECURSIVE Corpora(_)
Corpora(b) ==
    IF b <= 0 THEN {<<>>}
    ELSE {<<>>} \cup
         UNION {{<<s>> \o rest : rest \in Corpora(b - 1 - Len(s))} :
                s \in StrsUpTo(b - 1)}

CorpusFiles ==
    {JsonArray([i \in 1..Len(c) |-> Article("str", c[i])]) : c \in Corpora(MaxCorpusSize)}

PostProcessPath == <<"post_process_data", "/", "raw", ".json">>

InitCompile ==
    /\ input \in CorpusFiles
    /\ inst = Instance(PostProcessPath, <<>>)
    /\ pre = inst
    /\ call = NoCall

NextCompile == compile_docs(input)

SpecCompile == InitCompile /\ [][NextCompile]_vars

\* the fulltext values of the file read, each cut to its first
\* openai_token_limit characters
C1_Parts ==
    LET a == call.read.articles
    IN  [i \in 1..Len(a) |->
            [p \in 1..Min(Len(a[i].fulltext), openai_token_limit) |-> a[i].fulltext[p]]]

\* the number of characters of the joined text before part k
RECURSIVE C1_Offset(_, _)
C1_Offset(T, k) == IF k = 1 THEN 0 ELSE C1_Offset(T, k - 1) + Len(T[k - 1]) + 1

C1_JoinLen(T) == IF T = <<>> THEN 0 ELSE C1_Offset(T, Len(T)) + Len(T[Len(T)])

\* the parts in order, a "." between each two
C1_Joined(T) ==
    [p \in 1..C1_JoinLen(T) |->
        LET k == CHOOSE k \in 1..Len(T) :
                    C1_Offset(T, k) < p /\ p <= C1_Offset(T, k) + Len(T[k]) + 1
            i == p - C1_Offset(T, k)
        IN  IF i <= Len(T[k]) THEN T[k][i] ELSE "."]

\* the character at p is whitespace, only whitespace lies between it and a
\* period before it, and only whitespace between it and the end of its line
\* (or of the text)
C1_Trailing(J, p) ==
    /\ J[p] \in {" ", "\n"}
    /\ \E d \in 1..(p - 1) :
          J[d] = "." /\ \A q \in (d + 1)..p : J[q] \in {" ", "\n"}
    /\ \E e \in p..Len(J) :
          /\ \A q \in p..e : J[q] \in {" ", "\n"}
          /\ e = Len(J) \/ J[e + 1] = "\n"

\* J without its trailing whitespace after periods, all else kept in order
C1_Cleaned(J) ==
    LET kept == {p \in 1..Len(J) : ~C1_Trailing(J, p)}
    IN  [i \in 1..Cardinality(kept) |->
            J[CHOOSE p \in kept : Cardinality({q \in kept : q <= p}) = i]]

\* C1  For every JSON array of N string records, __compile_docs raises nothing
\* and returns the records' fulltext values, each cut to its first
\* openai_token_limit characters, joined in record order by ".", with exactly
\* the trailing whitespace after periods removed: a whitespace character goes
\* if and only if only whitespace lies between it and the period before it,
\* and only whitespace lies between it and an end of line (or of the text)
\* after it.  Every other character is kept, in order.
C1_CompiledText ==
    call.op = "__compile_docs" =>
        /\ call.raised = "none"
        /\ call.result = C1_Cleaned(C1_Joined(C1_Parts))

\* two records, the first longer than the limit, and whitespace was removed
C1_Witness ==
    /\ call.op = "__compile_docs"
    /\ Len(call.read.articles) = 2
    /\ Len(call.read.articles[1].fulltext) > openai_token_limit
    /\ Len(call.result) < C1_JoinLen(C1_Parts)
    /\ Len(call.result) > 0

----------------------------------------------------------------------------
\* SpecFreq: __word_frequency on every text and threshold within the bounds.

InitFreq ==
    /\ input \in [text : UNION {[1..n -> FreqAlphabet] : n \in 0..MaxTextLen},
                  top_freq : 0..MaxFreq]
    /\ inst = NoInstance
    /\ pre = inst
    /\ call = NoCall

NextFreq == word_frequency(input.text, input.top_freq)

SpecFreq == InitFreq /\ [][NextFreq]_vars

\* the lowercased text given to the last call
C2_Text == [i \in 1..Len(call.arg.text) |->
               IF call.arg.text[i] = "T" THEN "t" ELSE call.arg.text[i]]

\* a token of the text at i..j: a run of letters with no letter on either side
C2_TokenAt(i, j) ==
    /\ i <= j
    /\ \A k \in i..j : C2_Text[k] # " "
    /\ i = 1 \/ C2_Text[i - 1] = " "
    /\ j = Len(C2_Text) \/ C2_Text[j + 1] = " "

\* how often the word w occurs as a token of the text
C2_Count(w) ==
    Cardinality({i \in 1..Len(C2_Text) :
        \E j \in i..Len(C2_Text) : C2_TokenAt(i, j) /\ SubSeq(C2_Text, i, j) = w})

\* the tokens of the text
C2_Tokens ==
    {SubSeq(C2_Text, i, j) :
        <<i, j>> \in {ij \in (1..Len(C2_Text)) \X (1..Len(C2_Text)) : C2_TokenAt(ij[1], ij[2])}}

----------------------------------------------------------------------------
\* SpecHyponyms: extract_hyponyms on every answer of the lexical database
\* within the bounds.

\* the sequences of hyponyms of b lemmas and hyponyms at most
RECURSIVE HyponymLists(_)
HyponymLists(b) ==
    IF b <= 0 THEN {<<>>}
    ELSE {<<>>} \cup
         UNION {{<<l>> \o rest : rest \in HyponymLists(b - 1 - Len(l))} :
                l \in UNION {[1..n -> LemmaNames] : n \in 0..(b - 1)}}

RECURSIVE SynsetSize(_)
SynsetSize(synset) ==
    IF synset = <<>> THEN 0
    ELSE 1 + Len(Head(synset)) + SynsetSize(Tail(synset))

\* the sequences of synsets of b lemmas, hyponyms and synsets at most
RECURSIVE SynsetLists(_)
SynsetLists(b) ==
    IF b <= 0 THEN {<<>>}
    ELSE {<<>>} \cup
         UNION {{<<h>> \o rest : rest \in SynsetLists(b - 1 - SynsetSize(h))} :
                h \in HyponymLists(b - 1)}

InitHyponyms ==
    /\ input \in SynsetLists(MaxWordNetSize)
    /\ inst = Instance(PostProcessPath, <<>>)
    /\ pre = inst
    /\ call = NoCall

NextHyponyms == call.op = "none" /\ extract_hyponyms(<<"w">>, input)

SpecHyponyms == InitHyponyms /\ [][NextHyponyms]_vars

\* the lemmas the database answered: <<i, j, k>> is lemma k of hyponym j of
\* synset i
C7_Lemmas ==
    {<<i, j, k>> \in (1..MaxWordNetSize) \X (1..MaxWordNetSize) \X (1..MaxWordNetSize) :
        /\ i <= Len(call.read)
        /\ j <= Len(call.read[i])
        /\ k <= Len(call.read[i][j])}

\* t is u, or comes before it in sense, then hyponym, then lemma order
C7_UpTo(t, u) ==
    \/ t[1] < u[1]
    \/ t[1] = u[1] /\ t[2] < u[2]
    \/ t[1] = u[1] /\ t[2] = u[2] /\ t[3] <= u[3]

\* C7  extract_hyponyms returns one entry per lemma of every hyponym of every
\* synset of the word, duplicates included: the entry at position n is the
\* name of the n-th lemma in sense, then hyponym, then lemma order.  A word
\* with no synsets gives the empty list.
C7_FlattenedLemmas ==
    call.op = "extract_hyponyms" =>
        /\ Len(call.result) = Cardinality(C7_Lemmas)
        /\ \A u \in C7_Lemmas :
              call.result[Cardinality({t \in C7_Lemmas : C7_UpTo(t, u)})] =
                  call.read[u[1]][u[2]][u[3]]
        /\ call.read = <<>> => call.result = <<>>

\* two synsets, a hyponym of two lemmas, and a name that comes twice
C7_Witness ==
    /\ call.op = "extract_hyponyms"
    /\ call.read = << <<<<"x", "y">>>>, <<<<"x">>>> >>
    /\ call.result = <<"x", "y", "x">>

----------------------------------------------------------------------------
\* SpecInit: the constructor on every path, file system and environment
\* within the bounds.

InitInit ==
    /\ input \in [path : UNION {[1..n -> PathAtoms] : n \in 1..MaxPathLen},
                  exists : BOOLEAN, env : EnvValues, extraction : {"ok", "raises"}]
    /\ inst = NoInstance
    /\ pre = inst
    /\ call = NoCall

NextInit ==
    /\ call.op = "none"
    /\ Construct(input.path, input.exists, input.env, input.extraction)

SpecInit == InitInit /\ [][NextInit]_vars

\* the names of the calls the last call made, in order
EventNames == [i \in 1..Len(call.events) |-> call.events[i].name]

\* C5  Constructing the processor on a path that does not exist raises
\* FileNotFoundError before anything else happens: nothing but the existence
\* check is done (no warning, no extraction, no look at the environment) and
\* no processor with a file path or a document list comes into being.
C5_MissingPathRaisesFirst ==
    (call.op = "__init__" /\ ~call.arg.exists) =>
        /\ call.raised = "FileNotFoundError"
        /\ EventNames = <<"os.path.exists">>
        /\ ~inst.exists
        /\ inst = NoInstance

\* a path that does not exist and would have gone to the extraction step
C5_Witness ==
    /\ call.op = "__init__"
    /\ ~call.arg.exists
    /\ call.arg.path = <<"raw", ".xml">>
    /\ call.raised = "FileNotFoundError"

\* the path names a file under a directory post_process_data: one of its
\* components, not the last, is exactly that name
C9_UnderPostProcessDir(path) ==
    \E i \in 1..Len(path) :
        /\ path[i] = "post_process_data"
        /\ i = 1 \/ path[i - 1] = "/"
        /\ i + 1 < Len(path)
        /\ path[i + 1] = "/"

\* the compiled-documents path of a source: the directory of the environment,
\* and the source's base name with ".xml" turned into ".json"
C9_CompiledPath(env, path) ==
    LET last == CHOOSE i \in 0..Len(path) :
                    /\ i = 0 \/ path[i] = "/"
                    /\ \A j \in (i + 1)..Len(path) : path[j] # "/"
        name == [k \in 1..(Len(path) - last) |->
                    IF path[last + k] = ".xml" THEN ".json" ELSE path[last + k]]
    IN  IF env[Len(env)] = "/" THEN env \o name ELSE env \o <<"/">> \o name

\* C9  At construction on an existing path, a file under the
\* post_process_data directory triggers no extraction and the processor reads
\* from exactly the path given; any other file is passed to the extraction
\* step exactly once, and the processor (if the construction then succeeds)
\* reads from the compiled-documents directory of the environment, under the
\* source's base name with ".xml" replaced by ".json".
C9_RoutedByDirectory ==
    (call.op = "__init__" /\ call.arg.exists) =>
        IF C9_UnderPostProcessDir(call.arg.path)
            THEN /\ \A i \in 1..Len(call.events) : call.events[i].name # "from_xml"
                 /\ inst.exists
                 /\ inst.file_path = call.arg.path
        ELSE /\ Cardinality({i \in 1..Len(call.events) :
                    call.events[i] = Event("from_xml", call.arg.path)}) = 1
             /\ call.raised = "none" =>
                    /\ inst.exists
                    /\ inst.file_path = C9_CompiledPath(call.arg.env, call.arg.path)


----------------------------------------------------------------------------
\* Spec: a processor from its construction on, through any sequence of
\* retrieve_docs and extract_hyponyms calls, the file changing in between.

CtorPaths ==
    {PostProcessPath, <<"raw", ".xml">>}

\* a record whose fulltext is a string longer than the limit, one whose
\* fulltext is a list, and one without fulltext
MainArticles ==
    {Article("str", <<"a", ".", " ", "a">>), Article("list", <<"a">>),
     Article("absent", <<>>)}

MainFiles ==
    {MissingFile, InvalidJson} \cup
    {JsonArray(a) : a \in UNION {[1..n -> MainArticles] : n \in 0..MaxRecords}}

MainSynsets == {<<>>, << <<<<"x", "y">>>> >>}

Init ==
    /\ inst = NoInstance
    /\ pre = inst
    /\ call = NoCall
    /\ input = <<>>

Next ==
    \/ \E path \in CtorPaths, exists \in BOOLEAN, env \in EnvValues,
          extraction \in {"ok", "raises"} :
            Construct(path, exists, env, extraction)
    \/ \E file \in MainFiles : retrieve_docs(<<"q">>, file)
    \/ \E synsets \in MainSynsets : extract_hyponyms(<<"w">>, synsets)

Spec == Init /\ [][Next]_vars

\* the place of a call in retrieve_docs: 0 making the splitter, 1 the compile
\* step, 2 the split, 3 embedding and indexing, 4 the query
StepOf(name) ==
    CASE name = "CharacterTextSplitter" -> 0
      [] name \in {"open", "json.load", "logger.error"} -> 1
      [] name = "split_text" -> 2
      [] name \in {"logging.info", "Chroma.from_documents"} -> 3
      [] name = "get_relevant_documents" -> 4

\* C3  retrieve_docs builds its index from the first two chunks of the split
\* corpus only: the documents it hands to the vector store are chunk 1 and
\* chunk 2 (as far as they exist), and every document it returns has the
\* content of one of those two, never that of chunk 3 or a later one.
C3_OnlyFirstTwoChunks ==
    call.op = "retrieve_docs" =>
        /\ \A i \in 1..Len(call.events) :
              call.events[i].name = "Chroma.from_documents" =>
                  /\ Len(call.events[i].arg) = Min(2, Len(call.split))
                  /\ \A j \in 1..Len(call.events[i].arg) :
                        call.events[i].arg[j].page_content = call.split[j]
        /\ \A r \in 1..Len(call.result) :
              /\ \E j \in 1..Min(2, Len(call.split)) :
                    call.result[r].page_content = call.split[j]
              /\ \A j \in 3..Len(call.split) :
                    call.result[r].page_content # call.split[j]

\* the split gave three chunks and the query returned two documents
C3_Witness ==
    /\ call.op = "retrieve_docs"
    /\ call.raised = "none"
    /\ Len(call.split) = 3
    /\ Len(call.result) = 2

\* C6  When the file at the processor's path is not valid JSON, the compile
\* step of retrieve_docs ends in a ValueError, not the parse error itself,
\* and the parse error is logged, after the load and as the last thing done,
\* before the ValueError is raised.
C6_InvalidJsonLoggedThenValueError ==
    (call.op = "retrieve_docs" /\ call.read.kind = "invalid") =>
        /\ call.raised = "ValueError"
        /\ Len(call.events) >= 2
        /\ call.events[Len(call.events)] = Event("logger.error", "JSONDecodeError")
        /\ call.events[Len(call.events) - 1].name = "json.load"

\* retrieve_docs found a file that is not valid JSON
C6_Witness ==
    /\ call.op = "retrieve_docs"
    /\ call.read.kind = "invalid"
    /\ call.raised = "ValueError"

\* the fulltext values of the file the last call read, each cut to its first
\* openai_token_limit characters
C8_Truncated ==
    LET a == call.read.articles
    IN  [i \in 1..Len(a) |->
            [p \in 1..Min(Len(a[i].fulltext), openai_token_limit) |-> a[i].fulltext[p]]]

\* C8  The document list is the only state that changes after construction,
\* and only a successful compile changes it: it is empty after construction,
\* extract_hyponyms leaves the processor as it was, retrieve_docs leaves the
\* file path as it was, and after retrieve_docs the document list is the
\* truncated fulltext list of the file just read if the compile step
\* succeeded, and what it was before the call if it did not.
C8_DocsOfLastSuccessfulCompile ==
    inst.exists =>
        /\ call.op = "__init__" => inst.docs = <<>>
        /\ call.op = "extract_hyponyms" => inst = pre
        /\ call.op = "retrieve_docs" =>
              /\ inst.file_path = pre.file_path
              /\ IF \E i \in 1..Len(call.events) : call.events[i].name = "split_text"
                     THEN inst.docs = C8_Truncated
                 ELSE inst.docs = pre.docs

\* C10  retrieve_docs does its steps in the order compile, split, embed and
\* index, query, none before the one before it is done; and when the file is
\* not valid JSON the call ends in the compile step: it raises, nothing is
\* split, nothing is embedded, no index is built or queried, nothing is
\* returned and the processor, its document list included, is as it was.
C10_OrderAndFailedCompile ==
    call.op = "retrieve_docs" =>
        /\ \A i, j \in 1..Len(call.events) :
              i < j => StepOf(EventNames[i]) <= StepOf(EventNames[j])
        /\ \A i \in 1..Len(call.events) :
              StepOf(EventNames[i]) >= 2 =>
                  \E j \in 1..(i - 1) : StepOf(EventNames[j]) = StepOf(EventNames[i]) - 1
        /\ call.read.kind = "invalid" =>
              /\ call.raised # "none"
              /\ \A i \in 1..Len(call.events) : StepOf(EventNames[i]) <= 1
              /\ call.result = <<>>
              /\ inst = pre

\* a processor that holds documents meets a file that is not valid JSON
C10_Witness ==
    /\ call.op = "retrieve_docs"
    /\ call.read.kind = "invalid"
    /\ pre.docs # <<>>
    /\ inst.docs = pre.docs


====
